---- MODULE Spec2Model ----
(***************************************************************************)
(* mayalint / modelChecker: the check execution and result aggregation     *)
(* engine.  The concrete checks are translated from their sources; the     *)
(* Runner, whose source is not among the files, follows section 4.4 of     *)
(* the specification.                                                      *)
(*                                                                         *)
(* Conventions                                                             *)
(*  - a string (node name, UUID, USD path) is a sequence of one-character  *)
(*    strings, so that rsplit works on it as the code's does;              *)
(*  - a float is a fixed-point integer, Unit to 1.0;                       *)
(*  - a node-shaped result is [shape |-> "list", items |-> <<id, ...>>],   *)
(*    a component-shaped one [shape |-> "map", map |-> [id |-> <<i,..>>]]; *)
(*  - the outcome of a callable is [raised |-> FALSE, value |-> result]    *)
(*    or [raised |-> TRUE].                                                *)
(***************************************************************************)
EXTENDS Integers, Sequences, FiniteSets, TLC

VARIABLES scene, backend, selected, pc, idx, sub, acc, active,
          results, errors, checksDone, sinkLog, invLog, runs, call

vars == <<scene, backend, selected, pc, idx, sub, acc, active,
          results, errors, checksDone, sinkLog, invLog, runs, call>>

(***************************************************************************)
(* Bounds of the model.                                                    *)
(***************************************************************************)
MaxSelected == 3
MaxNodes == 3
MaxMeshes == 2
MaxUsd == 2

(***************************************************************************)
(* Numbers and strings.                                                    *)
(***************************************************************************)
Unit == 1000 * 1000

Abs(x) == IF x < 0 THEN -x ELSE x

\* Python's int(float): truncation toward zero.
IntTrunc(x) == IF x >= 0 THEN x \div Unit ELSE -((-x) \div Unit)

\* Python's None, as the value of a name that did not resolve.
None == <<"<None>">>

Digits == {"0", "1", "2", "3", "4", "5", "6", "7", "8", "9"}

\* The position of the last occurrence of sep in s, 0 when there is none.
LastIndexOf(s, sep) ==
    LET hits == {i \in 1..Len(s) : s[i] = sep}
    IN  IF hits = {} THEN 0 ELSE CHOOSE i \in hits : \A j \in hits : j <= i

\* s.rsplit(sep, 1)[-1]: what follows the last sep, all of s when sep is absent.
RSplitLast(s, sep) == SubSeq(s, LastIndexOf(s, sep) + 1, Len(s))

(***************************************************************************)
(* The scenes the checks are run on.  A native node is a record            *)
(*   uuid, name (None when the UUID no longer resolves), alive, root,      *)
(*   layer, pivot, translation, rotation, scale, min_y;                    *)
(* a mesh entry is a DAG path to a mesh shape with the UUID of its node    *)
(* (two instance paths of one shape share it), its faces (number of        *)
(* edges, per-face UVs, whether the UV query fails) and its UV array; a    *)
(* USD node is a path, with the prims of its range (min_y of the world     *)
(* bound, or a failing query), or broken when its stage does not resolve.  *)
(***************************************************************************)
Origin == <<0, 0, 0>>
Ones == <<Unit, Unit, Unit>>

NodeA == [uuid |-> <<"u", "1">>, name |-> <<"|", "a", "1">>, alive |-> TRUE,
          root |-> TRUE, layer |-> TRUE, pivot |-> Origin,
          translation |-> Origin, rotation |-> Origin, scale |-> Ones,
          min_y |-> Unit]
NodeB == [uuid |-> <<"u", "2">>, name |-> <<"|", "b", "|", "a", "1">>,
          alive |-> TRUE,
          root |-> FALSE, layer |-> FALSE, pivot |-> <<0, Unit, 0>>,
          translation |-> <<0, Unit, 0>>, rotation |-> Origin, scale |-> Ones,
          min_y |-> 0]
NodeC == [uuid |-> <<"u", "3">>, name |-> None, alive |-> FALSE,
          root |-> FALSE, layer |-> FALSE, pivot |-> Origin,
          translation |-> Origin, rotation |-> Origin, scale |-> Ones,
          min_y |-> 0]
NodeD == [uuid |-> <<"u", "4">>, name |-> <<"|", "c">>, alive |-> TRUE,
          root |-> TRUE, layer |-> FALSE, pivot |-> Origin,
          translation |-> Origin, rotation |-> Origin, scale |-> Ones,
          min_y |-> 50]
NodeLib == <<NodeA, NodeB, NodeC, NodeD>>

Half == Unit \div 2

Quad == [edges |-> 4, uv_error |-> FALSE,
         uvs |-> <<<<Half, Half>>, <<Half + 1, Half>>>>]
Pentagon == [edges |-> 5, uv_error |-> FALSE,
             uvs |-> <<<<Half, Half>>, <<Unit + Half, Half>>>>]
Hexagon == [edges |-> 6, uv_error |-> TRUE, uvs |-> <<>>]
Triangle == [edges |-> 3, uv_error |-> FALSE,
             uvs |-> <<<<-Half, Half>>, <<Half, Half>>>>]

MeshShape1 == [uuid |-> <<"m", "1">>,
               faces |-> <<Quad, Pentagon, Hexagon, Triangle>>,
               uvs |-> <<<<Half, Half>>, <<Unit, Half>>, <<Half, 2 * Unit + 5>>>>]
MeshShape2 == [uuid |-> <<"m", "2">>,
               faces |-> <<Triangle, Quad>>,
               uvs |-> <<<<Half, Half>>>>]
\* A DAG path to a shape node.
DagPath(path, shape) ==
    [dag |-> path, uuid |-> shape.uuid, faces |-> shape.faces, uvs |-> shape.uvs]

\* Three DAG paths: the first two are instances of one shape node.
MeshLib ==
    << DagPath(<<"|", "p", "|", "s">>, MeshShape1),
       DagPath(<<"|", "q", "|", "s">>, MeshShape1),
       DagPath(<<"|", "r", "|", "t">>, MeshShape2) >>

PrimOnGrid == [min_y |-> 0, fails |-> FALSE]
PrimOffGrid == [min_y |-> -Unit, fails |-> FALSE]
PrimFailing == [min_y |-> Unit, fails |-> TRUE]

UsdA == [path |-> <<"/", "a">>, root |-> TRUE, broken |-> FALSE,
         prims |-> <<PrimOnGrid, PrimOffGrid, PrimOffGrid>>]
UsdB == [path |-> <<"/", "b", "/", "a">>, root |-> FALSE, broken |-> FALSE,
         prims |-> <<PrimOnGrid>>]
UsdC == [path |-> <<"/", "c">>, root |-> TRUE, broken |-> FALSE,
         prims |-> <<PrimFailing, PrimOffGrid>>]
UsdLib == <<UsdA, UsdB, UsdC>>

Min(a, b) == IF a < b THEN a ELSE b

Prefix(s, n) == SubSeq(s, 1, Min(n, Len(s)))

\* A scene that can be enumerated, and the one that cannot (no active scene).
Scenes ==
    { [available |-> TRUE, nodes |-> Prefix(NodeLib, n),
       meshes |-> Prefix(MeshLib, m), usd |-> Prefix(UsdLib, u)] :
        n \in 0..MaxNodes, m \in 0..MaxMeshes, u \in 0..MaxUsd }

NoScene == [available |-> FALSE, nodes |-> <<>>, meshes |-> <<>>, usd |-> <<>>]

(***************************************************************************)
(* What the runner hands to a check (the enumerator of the scene).         *)
(***************************************************************************)
GetMayaNodes(sc) == [i \in 1..Len(sc.nodes) |-> sc.nodes[i].uuid]

IsRoot(n) == n.root

GetMayaRootNodes(sc) ==
    LET roots == SelectSeq(sc.nodes, IsRoot)
    IN  [i \in 1..Len(roots) |-> roots[i].uuid]

GetMeshIterator(sc) == sc.meshes

GetUsdNodes(sc) == [i \in 1..Len(sc.usd) |-> sc.usd[i].path]

GetUsdRootNodes(sc) ==
    LET roots == SelectSeq(sc.usd, IsRoot)
    IN  [i \in 1..Len(roots) |-> roots[i].path]

\* The node of the scene with this UUID.
NodeOf(sc, uuid) == CHOOSE n \in {sc.nodes[i] : i \in 1..Len(sc.nodes)} : n.uuid = uuid

UsdNodeOf(sc, path) == CHOOSE n \in {sc.usd[i] : i \in 1..Len(sc.usd)} : n.path = path

\* maya_utility.get_name_from_uuid: the name, None when nothing resolves.
GetNameFromUuid(sc, uuid) ==
    IF NodeOf(sc, uuid).alive THEN NodeOf(sc, uuid).name ELSE None

\* A maya.cmds query raises when it is given a name that names no node.
CmdsRaises(node_name) == node_name = None

Returned(v) == [raised |-> FALSE, value |-> v]
Raised == [raised |-> TRUE]

NodeList(items) == [shape |-> "list", items |-> items]
ComponentMap(m) == [shape |-> "map", map |-> m]

\* collections.defaultdict(list): d[key].append(i) for each i of indices.
EmptyDict == [k \in {} |-> <<>>]

DictExtend(d, key, indices) ==
    IF indices = <<>> THEN d
    ELSE [k \in DOMAIN d \cup {key} |->
            IF k = key
            THEN (IF key \in DOMAIN d THEN d[key] ELSE <<>>) \o indices
            ELSE d[k]]

(***************************************************************************)
(* Node-level checks.                                                      *)
(***************************************************************************)
RECURSIVE LayersLoop(_, _, _)
LayersLoop(sc, nodes, layers) ==
    IF nodes = <<>> THEN Returned(NodeList(layers))
    ELSE LET node == Head(nodes)
             node_name == GetNameFromUuid(sc, node)
         IN  IF CmdsRaises(node_name) THEN Raised
             ELSE LayersLoop(sc, Tail(nodes),
                             IF NodeOf(sc, node).layer
                             THEN Append(layers, node) ELSE layers)

LayersCheck_run(sc) == LayersLoop(sc, GetMayaNodes(sc), <<>>)

RECURSIVE UncenteredPivotsLoop(_, _, _)
UncenteredPivotsLoop(sc, nodes, uncentered_pivots) ==
    IF nodes = <<>> THEN Returned(NodeList(uncentered_pivots))
    ELSE LET node == Head(nodes)
             node_name == GetNameFromUuid(sc, node)
         IN  IF CmdsRaises(node_name) THEN Raised
             ELSE UncenteredPivotsLoop(sc, Tail(nodes),
                             IF NodeOf(sc, node).pivot # <<0, 0, 0>>
                             THEN Append(uncentered_pivots, node)
                             ELSE uncentered_pivots)

UncenteredPivots_run(sc) == UncenteredPivotsLoop(sc, GetMayaNodes(sc), <<>>)

RECURSIVE UnfrozenTransformsLoop(_, _, _)
UnfrozenTransformsLoop(sc, nodes, unfrozen_transforms) ==
    IF nodes = <<>> THEN Returned(NodeList(unfrozen_transforms))
    ELSE LET node == Head(nodes)
             node_name == GetNameFromUuid(sc, node)
             n == NodeOf(sc, node)
         IN  IF CmdsRaises(node_name) THEN Raised
             ELSE UnfrozenTransformsLoop(sc, Tail(nodes),
                             IF \/ n.translation # <<0, 0, 0>>
                                \/ n.rotation # <<0, 0, 0>>
                                \/ n.scale # <<Unit, Unit, Unit>>
                             THEN Append(unfrozen_transforms, node)
                             ELSE unfrozen_transforms)

UnfrozenTransformsCheck_run(sc) ==
    UnfrozenTransformsLoop(sc, GetMayaNodes(sc), <<>>)

\* `if node_name and node_name[-1].isdigit()`: None and "" are falsy.
RECURSIVE NamespacesLoop(_, _, _)
NamespacesLoop(sc, nodes, output) ==
    IF nodes = <<>> THEN Returned(NodeList(output))
    ELSE LET node == Head(nodes)
             node_name == GetNameFromUuid(sc, node)
         IN  NamespacesLoop(sc, Tail(nodes),
                            IF /\ node_name # None
                               /\ node_name # <<>>
                               /\ node_name[Len(node_name)] \in Digits
                            THEN Append(output, node) ELSE output)

NamespacesCheck_run(sc) == NamespacesLoop(sc, GetMayaNodes(sc), <<>>)

\* TOLERENCE = 0.0001
TOLERENCE == Unit \div 10000

RECURSIVE OnGridLoop(_, _, _)
OnGridLoop(sc, uuids, output) ==
    IF uuids = <<>> THEN Returned(NodeList(output))
    ELSE LET uuid == Head(uuids)
             node_name == GetNameFromUuid(sc, uuid)
             min_y == NodeOf(sc, uuid).min_y
         IN  IF CmdsRaises(node_name) THEN Raised
             ELSE OnGridLoop(sc, Tail(uuids),
                             IF Abs(min_y) > TOLERENCE
                             THEN Append(output, uuid) ELSE output)

OnGridCheck_run(sc) == OnGridLoop(sc, GetMayaRootNodes(sc), <<>>)

\* `for child in Usd.PrimRange(prim)`: "flag" at the first prim off the grid
\* (append, break), "raise" at a prim whose bound cannot be computed, "pass"
\* when the range ends.
RECURSIVE PrimRangeLoop(_)
PrimRangeLoop(prims) ==
    IF prims = <<>> THEN "pass"
    ELSE IF Head(prims).fails THEN "raise"
    ELSE IF Abs(Head(prims).min_y) > TOLERENCE THEN "flag"
    ELSE PrimRangeLoop(Tail(prims))

\* The try block for one root; the except clause continues with the next root.
UsdRootOffGrid(sc, node) ==
    LET n == UsdNodeOf(sc, node)
    IN  IF n.broken THEN FALSE ELSE PrimRangeLoop(n.prims) = "flag"

\* The prims of a root at which the inner loop would append the root, had it
\* no break: the off-grid prims before the first prim that raises.
RECURSIVE OffGridBeforeRaise(_)
OffGridBeforeRaise(prims) ==
    IF prims = <<>> \/ Head(prims).fails THEN 0
    ELSE (IF Abs(Head(prims).min_y) > TOLERENCE THEN 1 ELSE 0)
         + OffGridBeforeRaise(Tail(prims))

\* The loop over the roots with no break after output.append(node).
RECURSIVE OnGridUsdLoopNoBreak(_, _, _)
OnGridUsdLoopNoBreak(sc, nodes, output) ==
    IF nodes = <<>> THEN Returned(NodeList(output))
    ELSE LET n == UsdNodeOf(sc, Head(nodes))
             times == IF n.broken THEN 0 ELSE OffGridBeforeRaise(n.prims)
         IN  OnGridUsdLoopNoBreak(sc, Tail(nodes),
                 output \o [k \in 1..times |-> Head(nodes)])

RECURSIVE OnGridUsdLoop(_, _, _)
OnGridUsdLoop(sc, nodes, output) ==
    IF nodes = <<>> THEN Returned(NodeList(output))
    ELSE OnGridUsdLoop(sc, Tail(nodes),
                       IF UsdRootOffGrid(sc, Head(nodes))
                       THEN Append(output, Head(nodes)) ELSE output)

OnGridCheck_usd_run(sc) == OnGridUsdLoop(sc, GetUsdRootNodes(sc), <<>>)

\* nodes_by_short_name[name].append(id) on a defaultdict(list); a dict keeps
\* its keys in the order of their first insertion.
GroupAppend(groups, name, id) ==
    IF \E i \in 1..Len(groups) : groups[i].name = name
    THEN [i \in 1..Len(groups) |->
            IF groups[i].name = name
            THEN [groups[i] EXCEPT !.ids = Append(@, id)]
            ELSE groups[i]]
    ELSE Append(groups, [name |-> name, ids |-> <<id>>])

RECURSIVE InvalidOfAny(_, _)
InvalidOfAny(groups, invalid) ==
    IF groups = <<>> THEN invalid
    ELSE InvalidOfAny(Tail(groups),
                      IF Len(Head(groups).ids) >= 1
                      THEN invalid \o Head(groups).ids ELSE invalid)

\* for ids in nodes_by_short_name.values(): if len(ids) > 1: invalid.extend(ids)
RECURSIVE InvalidOf(_, _)
InvalidOf(groups, invalid) ==
    IF groups = <<>> THEN invalid
    ELSE InvalidOf(Tail(groups),
                   IF Len(Head(groups).ids) > 1
                   THEN invalid \o Head(groups).ids ELSE invalid)

\* None.rsplit raises AttributeError.
RECURSIVE DuplicatedNamesLoop(_, _, _)
DuplicatedNamesLoop(sc, uuids, nodes_by_short_name) ==
    IF uuids = <<>> THEN Returned(NodeList(InvalidOf(nodes_by_short_name, <<>>)))
    ELSE LET uuid == Head(uuids)
             node_name == GetNameFromUuid(sc, uuid)
         IN  IF node_name = None THEN Raised
             ELSE DuplicatedNamesLoop(sc, Tail(uuids),
                     GroupAppend(nodes_by_short_name,
                                 RSplitLast(node_name, "|"), uuid))

DuplicatedNamesCheck_run(sc) ==
    DuplicatedNamesLoop(sc, GetMayaNodes(sc), <<>>)

RECURSIVE DuplicatedNamesUsdLoopPipe(_, _)
DuplicatedNamesUsdLoopPipe(nodes, nodes_by_short_name) ==
    IF nodes = <<>> THEN Returned(NodeList(InvalidOf(nodes_by_short_name, <<>>)))
    ELSE DuplicatedNamesUsdLoopPipe(Tail(nodes),
             GroupAppend(nodes_by_short_name,
                         RSplitLast(Head(nodes), "|"), Head(nodes)))

RECURSIVE DuplicatedNamesUsdLoop(_, _)
DuplicatedNamesUsdLoop(nodes, nodes_by_short_name) ==
    IF nodes = <<>> THEN Returned(NodeList(InvalidOf(nodes_by_short_name, <<>>)))
    ELSE DuplicatedNamesUsdLoop(Tail(nodes),
             GroupAppend(nodes_by_short_name,
                         RSplitLast(Head(nodes), "/"), Head(nodes)))

DuplicatedNamesCheck_usd_run(sc) ==
    DuplicatedNamesUsdLoop(GetUsdNodes(sc), <<>>)

(***************************************************************************)
(* Component checks.                                                       *)
(***************************************************************************)
RECURSIVE NgonFaceLoopFromQuads(_, _, _)
NgonFaceLoopFromQuads(faces, i, flagged) ==
    IF i > Len(faces) THEN flagged
    ELSE NgonFaceLoopFromQuads(faces, i + 1,
                               IF faces[i].edges >= 4
                               THEN Append(flagged, i - 1) ELSE flagged)

\* while not face_iterator.isDone(): the faces in index order, from 0.
RECURSIVE NgonFaceLoop(_, _, _)
NgonFaceLoop(faces, i, flagged) ==
    IF i > Len(faces) THEN flagged
    ELSE NgonFaceLoop(faces, i + 1,
                      IF faces[i].edges > 4
                      THEN Append(flagged, i - 1) ELSE flagged)

RECURSIVE NgonMeshLoop(_, _)
NgonMeshLoop(meshes, ngons) ==
    IF meshes = <<>> THEN Returned(ComponentMap(ngons))
    ELSE NgonMeshLoop(Tail(meshes),
                      DictExtend(ngons, Head(meshes).uuid,
                                 NgonFaceLoop(Head(meshes).faces, 1, <<>>)))

NgonCheck_runFirstMesh(sc) ==
    IF GetMeshIterator(sc) = <<>> THEN Raised
    ELSE NgonMeshLoop(GetMeshIterator(sc), EmptyDict)

\* The dict of the call before is kept and appended to, instead of a new
\* defaultdict(list) for each call.
NgonCheck_runKeepsDict(sc) ==
    NgonMeshLoop(GetMeshIterator(sc),
                 IF runs # <<>> /\ "ngons" \in DOMAIN runs[Len(runs)].results
                 THEN runs[Len(runs)].results["ngons"].map
                 ELSE EmptyDict)

NgonCheck_run(sc) == NgonMeshLoop(GetMeshIterator(sc), EmptyDict)

\* uAdd = int(Us[i]) if Us[i] > 0 else int(Us[i]) - 1
\* The tile as int() alone gives it.
UVTileTrunc(x) == IntTrunc(x)

UVTile(x) == IF x > 0 THEN IntTrunc(x) ELSE IntTrunc(x) - 1

FaceCrossesBorder(face) ==
    LET U == {UVTile(face.uvs[i][1]) : i \in 1..Len(face.uvs)}
        V == {UVTile(face.uvs[i][2]) : i \in 1..Len(face.uvs)}
    IN  Cardinality(U) > 1 \/ Cardinality(V) > 1

\* A face whose getUVs() raises takes the except clause: a warning, next face.
RECURSIVE CrossBorderFaceLoop(_, _, _)
CrossBorderFaceLoop(faces, i, flagged) ==
    IF i > Len(faces) THEN flagged
    ELSE CrossBorderFaceLoop(faces, i + 1,
                      IF ~faces[i].uv_error /\ FaceCrossesBorder(faces[i])
                      THEN Append(flagged, i - 1) ELSE flagged)

RECURSIVE CrossBorderMeshLoop(_, _)
CrossBorderMeshLoop(meshes, cross_border) ==
    IF meshes = <<>> THEN Returned(ComponentMap(cross_border))
    ELSE CrossBorderMeshLoop(Tail(meshes),
                      DictExtend(cross_border, Head(meshes).uuid,
                                 CrossBorderFaceLoop(Head(meshes).faces, 1, <<>>)))

\* The same loops without the try block: the first failing query gets out.
CrossBorderCheck_runNoExcept(sc) ==
    IF \E m \in 1..Len(GetMeshIterator(sc)) :
          \E f \in 1..Len(GetMeshIterator(sc)[m].faces) :
              GetMeshIterator(sc)[m].faces[f].uv_error
    THEN Raised
    ELSE CrossBorderMeshLoop(GetMeshIterator(sc), EmptyDict)

CrossBorderCheck_run(sc) == CrossBorderMeshLoop(GetMeshIterator(sc), EmptyDict)

\* The except clause: cmds.warning("Face <index> has no UVs"), once for each
\* face whose getUVs() raises, in the order the faces are met.
RECURSIVE CrossBorderWarnFaces(_, _, _)
CrossBorderWarnFaces(faces, i, warned) ==
    IF i > Len(faces) THEN warned
    ELSE CrossBorderWarnFaces(faces, i + 1,
                      IF faces[i].uv_error
                      THEN Append(warned, i - 1) ELSE warned)

RECURSIVE CrossBorderWarnMeshes(_, _)
CrossBorderWarnMeshes(meshes, warned) ==
    IF meshes = <<>> THEN warned
    ELSE CrossBorderWarnMeshes(Tail(meshes),
                      warned \o CrossBorderWarnFaces(Head(meshes).faces, 1, <<>>))

CrossBorderCheck_warnings(sc) == CrossBorderWarnMeshes(GetMeshIterator(sc), <<>>)

\* TOLERANCE = 0.00001
TOLERANCE == Unit \div 100000

UVOnBorder(uv) ==
    \/ Abs(IntTrunc(uv[1]) * Unit - uv[1]) < TOLERANCE
    \/ Abs(IntTrunc(uv[2]) * Unit - uv[2]) < TOLERANCE

\* for i in range(len(Us))
RECURSIVE OnBorderUVLoop(_, _, _)
OnBorderUVLoop(uvs, i, flagged) ==
    IF i > Len(uvs) THEN flagged
    ELSE OnBorderUVLoop(uvs, i + 1,
                        IF UVOnBorder(uvs[i])
                        THEN Append(flagged, i - 1) ELSE flagged)

RECURSIVE OnBorderMeshLoop(_, _)
OnBorderMeshLoop(meshes, on_border) ==
    IF meshes = <<>> THEN Returned(ComponentMap(on_border))
    ELSE OnBorderMeshLoop(Tail(meshes),
                      DictExtend(on_border, Head(meshes).uuid,
                                 OnBorderUVLoop(Head(meshes).uvs, 1, <<>>)))

OnBorderCheck_run(sc) == OnBorderMeshLoop(GetMeshIterator(sc), EmptyDict)

(***************************************************************************)
(* The check classes: their names, the entity kind each declares and the   *)
(* entry points each defines.                                              *)
(***************************************************************************)
CheckClasses ==
    << "layers", "on_grid", "uncentered_pivots", "duplicated_names",
       "namespaces", "ngons", "cross_border", "on_border",
       "unfrozen_transforms" >>

CheckNames == {CheckClasses[i] : i \in 1..Len(CheckClasses)}

\* node_type, "undeclared" for a class that sets none.
NodeType(check) ==
    CASE check = "on_grid" -> "NODE"
      [] check = "duplicated_names" -> "NODE"
      [] check = "ngons" -> "FACE"
      [] check = "cross_border" -> "UV"
      [] check = "on_border" -> "UV"
      [] OTHER -> "undeclared"

\* label, "undeclared" for a class that sets none.
Label(check) ==
    CASE check = "layers" -> "Layers"
      [] check = "on_grid" -> "On Grid"
      [] check = "uncentered_pivots" -> "Uncentered Pivots"
      [] check = "duplicated_names" -> "Duplicated Names"
      [] check = "namespaces" -> "Namespaces"
      [] check = "ngons" -> "Ngons"
      [] check = "cross_border" -> "Cross Border"
      [] check = "on_border" -> "On Border"
      [] check = "unfrozen_transforms" -> "Unfrozen Transforms"
      [] OTHER -> "undeclared"

\* category, "undeclared" for a class that sets none.
Category(check) ==
    CASE check = "layers" -> "General"
      [] check = "on_grid" -> "General"
      [] check = "duplicated_names" -> "Naming"
      [] check = "namespaces" -> "Naming"
      [] check = "ngons" -> "Topology"
      [] check = "cross_border" -> "UVs"
      [] check = "on_border" -> "UVs"
      [] check = "unfrozen_transforms" -> "General"
      [] OTHER -> "undeclared"

\* The name of a check class whose module is not among the files: a name of
\* its own, written here as the identifier of the class.
NameOfMissingClass(class) == class

\* The name attribute of a check class.
NameOfClass(class) ==
    CASE class = "LayersCheck" -> "layers"
      [] class = "OnGridCheck" -> "on_grid"
      [] class = "UncenteredPivots" -> "uncentered_pivots"
      [] class = "DuplicatedNamesCheck" -> "duplicated_names"
      [] class = "NamespacesCheck" -> "namespaces"
      [] class = "NgonCheck" -> "ngons"
      [] class = "CrossBorderCheck" -> "cross_border"
      [] class = "OnBorderCheck" -> "on_border"
      [] class = "UnfrozenTransformsCheck" -> "unfrozen_transforms"
      [] OTHER -> NameOfMissingClass(class)

all_checksNgonTwice ==
    << "DefaultShaderCheck", "EmptyGroupsCheck", "HistoryCheck", "LayersCheck",
       "OnGridCheck", "ParentGeometryCheck", "UncenteredPivots",
       "DuplicatedNamesCheck", "NamespacesCheck", "ShapeNamesCheck",
       "TrailingNumberCheck",
       "HardEdgesCheck", "LaminaCheck", "NgonCheck", "NoneManifoldEdgesCheck",
       "OpenEdgesCheck", "PolesCheck", "TriangleCheck", "NgonCheck",
       "ZeroAreaFacesCheck", "ZeroLengthEdgesCheck",
       "CrossBorderCheck", "SelfPenetratingUVsCheck", "UVRangeCheck" >>

\* all_checks of modelChecker/checks/__init__.py, under src/src.
all_checks ==
    << "DefaultShaderCheck", "EmptyGroupsCheck", "HistoryCheck", "LayersCheck",
       "OnGridCheck", "ParentGeometryCheck", "UncenteredPivots",
       "DuplicatedNamesCheck", "NamespacesCheck", "ShapeNamesCheck",
       "TrailingNumberCheck",
       "HardEdgesCheck", "LaminaCheck", "NgonCheck", "NoneManifoldEdgesCheck",
       "OpenEdgesCheck", "PolesCheck", "TriangleCheck",
       "ZeroAreaFacesCheck", "ZeroLengthEdgesCheck",
       "CrossBorderCheck", "SelfPenetratingUVsCheck", "UVRangeCheck" >>

\* all_checks of modelChecker/checks/__init__.py, under src.
all_checks_top ==
    << "NgonCheck", "TrailingNumberCheck", "TriangleCheck", "UVRangeCheck",
       "PolesCheck", "SelfPenetratingUVsCheck", "DefaultShaderCheck",
       "UncenteredPivots", "DuplicatedNamesCheck" >>

\* The kind of component whose index run appends to the lists of its result:
\* face_iterator.index() / faceIt.index() is the index of a face, the i of
\* `for i in range(len(Us))` over mesh.getUVs() the index of a UV.
IndexKind(check) ==
    CASE check = "ngons" -> "FACE"
      [] check = "cross_border" -> "FACE"
      [] check = "on_border" -> "UV"
      [] OTHER -> "none"

HasUsdRunEvery(check) == TRUE

\* Every class defines run; these define usd_run as well.
HasUsdRun(check) == check \in {"on_grid", "duplicated_names"}

HasRun(check) == check \in CheckNames

\* check.run(runner) / check.usd_run(runner)
Call(check, entry, sc) ==
    IF entry = "usd_run"
    THEN CASE check = "on_grid" -> OnGridCheck_usd_run(sc)
           [] check = "duplicated_names" -> DuplicatedNamesCheck_usd_run(sc)
           [] OTHER -> Raised    \* AttributeError: the class has no usd_run
    ELSE CASE check = "layers" -> LayersCheck_run(sc)
           [] check = "on_grid" -> OnGridCheck_run(sc)
           [] check = "uncentered_pivots" -> UncenteredPivots_run(sc)
           [] check = "duplicated_names" -> DuplicatedNamesCheck_run(sc)
           [] check = "namespaces" -> NamespacesCheck_run(sc)
           [] check = "ngons" -> NgonCheck_run(sc)
           [] check = "cross_border" -> CrossBorderCheck_run(sc)
           [] check = "on_border" -> OnBorderCheck_run(sc)
           [] check = "unfrozen_transforms" -> UnfrozenTransformsCheck_run(sc)

(***************************************************************************)
(* The Runner: run(backend, selected_checks, progress_sink).               *)
(*                                                                         *)
(*   pc          "idle" before the call, "loop" between two invocations,   *)
(*               "call" while a check callable executes, "returned" when   *)
(*               run handed back the aggregate, "failed" when run failed   *)
(*   idx         the position in selected of the check being dispatched    *)
(*   sub         the entry points of that check invoked so far             *)
(*   acc         what the entry points of that check returned so far       *)
(*   active      the callables executing now                               *)
(*   results     check name -> CheckResult                                 *)
(*   errors      check name -> captured description                        *)
(*   checksDone  the counter handed to the progress sink                   *)
(*   sinkLog     the checks_done values the progress sink has observed     *)
(*   invLog      the callables invoked so far, in order                    *)
(*   runs        what the earlier calls of run on this scene returned      *)
(*   call        the last call of a command that takes no Runner           *)
(***************************************************************************)
Backends == {"NATIVE", "STAGED", "BOTH"}

\* The selections: the subsequences of the check classes, up to MaxSelected.
Positions ==
    { q \in UNION {[1..k -> 1..Len(CheckClasses)] : k \in 0..MaxSelected} :
        \A i, j \in DOMAIN q : i < j => q[i] < q[j] }

Selections == { [i \in DOMAIN q |-> CheckClasses[q[i]]] : q \in Positions }

\* The entry points of a check the backend calls for, in the order called.
Entries(check, b) ==
    (IF b \in {"NATIVE", "BOTH"} /\ HasRun(check) THEN <<"run">> ELSE <<>>)
    \o (IF b \in {"STAGED", "BOTH"} /\ HasUsdRun(check) THEN <<"usd_run">> ELSE <<>>)

NoResult == [shape |-> "none"]

\* No command has been called.
NoCall == [fn |-> "none"]

\* The elements of b that a does not hold, in b's order.
RECURSIVE NotIn(_, _)
NotIn(a, b) ==
    IF b = <<>> THEN <<>>
    ELSE IF \E i \in 1..Len(a) : a[i] = Head(b)
    THEN NotIn(a, Tail(b))
    ELSE <<Head(b)>> \o NotIn(Append(a, Head(b)), Tail(b))

UnionLists(a, b) == LET a1 == NotIn(<<>>, a) IN a1 \o NotIn(a1, b)

UnionMaps(a, b) ==
    [k \in DOMAIN a \cup DOMAIN b |->
        UnionLists(IF k \in DOMAIN a THEN a[k] ELSE <<>>,
                   IF k \in DOMAIN b THEN b[k] ELSE <<>>)]

MergeOverwrite(a, v) == v

\* Merging what a second backend returned under the same check name.
Merge(a, v) ==
    IF a = NoResult THEN v
    ELSE IF v.shape = "list" THEN NodeList(UnionLists(a.items, v.items))
    ELSE ComponentMap(UnionMaps(a.map, v.map))

Put(f, k, v) == [x \in DOMAIN f \cup {k} |-> IF x = k THEN v ELSE f[x]]

Current == selected[idx]

InvokeReadyEager == pc \in {"loop", "call"}

\* A callable may be invoked when none is executing.
InvokeReady == pc = "loop"

\* The value of checks_done after one more check has completed.
NextChecksDone == checksDone + 1

Init ==
    /\ scene \in Scenes \cup {NoScene}
    /\ backend \in Backends
    /\ selected \in Selections
    /\ pc = "idle"
    /\ idx = 0
    /\ sub = 0
    /\ acc = NoResult
    /\ active = {}
    /\ results = <<>>
    /\ errors = <<>>
    /\ checksDone = 0
    /\ sinkLog = <<>>
    /\ invLog = <<>>
    /\ runs = <<>>
    /\ call = NoCall

StartUnchecked ==
    /\ pc = "idle"
    /\ pc' = "loop"
    /\ idx' = 1
    /\ UNCHANGED <<runs, call, scene, backend, selected, sub, acc, active, results,
                   errors, checksDone, sinkLog, invLog>>

\* run is called: the scene context is built once, or run fails.
Start ==
    /\ pc = "idle"
    /\ IF scene.available
       THEN pc' = "loop" /\ idx' = 1
       ELSE pc' = "failed" /\ idx' = idx
    /\ UNCHANGED <<runs, call, scene, backend, selected, sub, acc, active, results,
                   errors, checksDone, sinkLog, invLog>>

SkipRecordsEmpty ==
    /\ pc = "loop"
    /\ idx <= Len(selected)
    /\ Entries(Current, backend) = <<>>
    /\ idx' = idx + 1
    /\ results' = Put(results, Current, NodeList(<<>>))
    /\ UNCHANGED <<runs, call, scene, backend, selected, pc, sub, acc, active,
                   errors, checksDone, sinkLog, invLog>>

\* A check with no entry point for the backend is skipped silently.
Skip ==
    /\ pc = "loop"
    /\ idx <= Len(selected)
    /\ Entries(Current, backend) = <<>>
    /\ idx' = idx + 1
    /\ UNCHANGED <<runs, call, scene, backend, selected, pc, sub, acc, active, results,
                   errors, checksDone, sinkLog, invLog>>

\* The next entry point of the current check is invoked.
Invoke ==
    /\ InvokeReady
    /\ idx <= Len(selected)
    /\ sub < Len(Entries(Current, backend))
    /\ sub' = sub + 1
    /\ active' = active \cup {<<Current, Entries(Current, backend)[sub + 1]>>}
    /\ invLog' = Append(invLog, <<Current, Entries(Current, backend)[sub + 1]>>)
    /\ pc' = "call"
    /\ UNCHANGED <<runs, call, scene, backend, selected, idx, acc, results, errors,
                   checksDone, sinkLog>>

Outcome == Call(Current, Entries(Current, backend)[sub], scene)

CompleteRaiseAborts ==
    /\ pc = "call"
    /\ Outcome.raised
    /\ active' = {}
    /\ pc' = "failed"
    /\ UNCHANGED <<runs, call, scene, backend, selected, idx, sub, acc, results, errors,
                   checksDone, sinkLog, invLog>>

CompleteRaiseSilent ==
    /\ pc = "call"
    /\ Outcome.raised
    /\ errors' = Put(errors, Current, "raised")
    /\ active' = {}
    /\ acc' = NoResult
    /\ sub' = 0
    /\ idx' = idx + 1
    /\ pc' = "loop"
    /\ UNCHANGED <<runs, call, scene, backend, selected, results, checksDone, sinkLog,
                   invLog>>

\* The callable raised: the check goes to errors, and the sink is told.
CompleteRaise ==
    /\ pc = "call"
    /\ Outcome.raised
    /\ errors' = Put(errors, Current, "raised")
    /\ active' = {}
    /\ acc' = NoResult
    /\ sub' = 0
    /\ idx' = idx + 1
    /\ checksDone' = NextChecksDone
    /\ sinkLog' = Append(sinkLog, checksDone')
    /\ pc' = "loop"
    /\ UNCHANGED <<runs, call, scene, backend, selected, results, invLog>>

\* The callable returned and another entry point of the check is to come.
CompleteMore ==
    /\ pc = "call"
    /\ ~Outcome.raised
    /\ sub < Len(Entries(Current, backend))
    /\ acc' = Merge(acc, Outcome.value)
    /\ active' = {}
    /\ pc' = "loop"
    /\ UNCHANGED <<runs, call, scene, backend, selected, idx, sub, results, errors,
                   checksDone, sinkLog, invLog>>

\* The last callable of the check returned: its result is recorded under
\* the check's name, and the sink is told.
CompleteLast ==
    /\ pc = "call"
    /\ ~Outcome.raised
    /\ sub = Len(Entries(Current, backend))
    /\ results' = Put(results, Current, Merge(acc, Outcome.value))
    /\ active' = {}
    /\ acc' = NoResult
    /\ sub' = 0
    /\ idx' = idx + 1
    /\ checksDone' = NextChecksDone
    /\ sinkLog' = Append(sinkLog, checksDone')
    /\ pc' = "loop"
    /\ UNCHANGED <<runs, call, scene, backend, selected, errors, invLog>>

\* Every selected check has been dispatched: run returns the aggregate.
Return ==
    /\ pc = "loop"
    /\ idx > Len(selected)
    /\ pc' = "returned"
    /\ UNCHANGED <<runs, call, scene, backend, selected, idx, sub, acc, active, results,
                   errors, checksDone, sinkLog, invLog>>

Next ==
    \/ Start
    \/ Skip
    \/ Invoke
    \/ CompleteRaise
    \/ CompleteMore
    \/ CompleteLast
    \/ Return

Spec == Init /\ [][Next]_vars

(***************************************************************************)
(* Scenes for the single checks: the same Runner, called on scenes that    *)
(* vary what one check looks at, and called again on the unchanged scene.  *)
(*                                                                         *)
(* An entity is given by the segments of its path: its native name joins   *)
(* them with '|', its staged path with '/', so one list of entities gives  *)
(* a native and a staged scene with the same structure.                    *)
(***************************************************************************)
MaxNames == 3
MaxFaces == 3
MaxRoots == 2
MaxLeaves == 2
MaxRuns == 2
MaxTile == 2

IndexChars == <<"1", "2", "3", "4", "5", "6", "7", "8", "9">>

GeoCube1 == <<"g", "e", "o", "_", "c", "u", "b", "e", "1">>
GeoCube2 == <<"g", "e", "o", "_", "c", "u", "b", "e", "2">>
Grp == <<"g", "r", "p">>

RECURSIVE Join(_, _)
Join(segments, sep) ==
    IF segments = <<>> THEN <<>>
    ELSE <<sep>> \o Head(segments) \o Join(Tail(segments), sep)

\* A live transform with nothing for the other checks to find.
PlainNode(i, name, root, min_y) ==
    [uuid |-> <<"u", IndexChars[i]>>, name |-> name, alive |-> TRUE,
     root |-> root, layer |-> FALSE, pivot |-> Origin, translation |-> Origin,
     rotation |-> Origin, scale |-> Ones, min_y |-> min_y]

PlainPrim(min_y) == [min_y |-> min_y, fails |-> FALSE]

\* |geo_cube1, |geo_cube2, |grp|geo_cube1 and |grp.
PathPool == {<<GeoCube1>>, <<GeoCube2>>, <<Grp, GeoCube1>>, <<Grp>>}

\* The entities of a scene: full paths name them, so none comes twice.
PathLists ==
    { q \in UNION {[1..k -> PathPool] : k \in 0..MaxNames} :
        \A i, j \in DOMAIN q : i # j => q[i] # q[j] }

NameScene(paths) ==
    [available |-> TRUE,
     nodes |-> [i \in 1..Len(paths) |->
                  PlainNode(i, Join(paths[i], "|"), Len(paths[i]) = 1, 0)],
     meshes |-> <<>>,
     usd |-> [i \in 1..Len(paths) |->
                [path |-> Join(paths[i], "/"), root |-> Len(paths[i]) = 1,
                 broken |-> FALSE, prims |-> <<PlainPrim(0)>>]]]

NameScenes == {NameScene(paths) : paths \in PathLists}

\* Meshes: the faces of the first shape vary; the scene holds it alone, or
\* with a second instance path to it, or with another shape.
FacePool == {Quad, Pentagon, Hexagon, Triangle}

FaceLists == UNION {[1..k -> FacePool] : k \in 0..MaxFaces}

MeshScene(faces, others) ==
    LET shape == [uuid |-> <<"m", "1">>, faces |-> faces, uvs |-> MeshShape1.uvs]
    IN  [available |-> TRUE, nodes |-> <<>>,
         meshes |-> <<DagPath(<<"|", "p", "|", "s">>, shape)>> \o
                    (CASE others = 0 -> <<>>
                       [] others = 1 -> <<DagPath(<<"|", "q", "|", "s">>, shape)>>
                       [] OTHER -> <<MeshLib[3]>>),
         usd |-> <<>>]

MeshScenes == {MeshScene(faces, others) : faces \in FaceLists, others \in 0..2}

\* UV coordinates in the tiles -MaxTile .. MaxTile - 1: on the lower border
\* of a tile, just above it, in the middle, and just below the upper border.
TileCoords ==
    { k * Unit + off : k \in (-MaxTile)..(MaxTile - 1),
                       off \in {0, 1, Half, Unit - 1} }

\* Faces of two UVs that differ along U or along V.
TileFaces ==
    { [edges |-> 4, uv_error |-> FALSE, uvs |-> <<<<a, Half>>, <<b, Half>>>>] :
        a, b \in TileCoords }
    \cup
    { [edges |-> 4, uv_error |-> FALSE, uvs |-> <<<<-Half, a>>, <<-Half, b>>>>] :
        a, b \in TileCoords }

TileScene(face) ==
    [available |-> TRUE, nodes |-> <<>>,
     meshes |-> <<DagPath(<<"|", "p", "|", "s">>,
                          [uuid |-> <<"m", "1">>, faces |-> <<face>>,
                           uvs |-> <<>>])>>,
     usd |-> <<>>]

TileScenes == {TileScene(face) : face \in TileFaces}

\* Hierarchies: each root holds leaves, each leaf the lowest y of its own
\* world bound; the world bound of a root is the union of its leaves'.
Heights == {0, Unit}

LeafLists == UNION {[1..k -> Heights] : k \in 1..MaxLeaves}

Hierarchies == UNION {[1..r -> LeafLists] : r \in 0..MaxRoots}

RECURSIVE MinOf(_)
MinOf(s) == IF Len(s) = 1 THEN s[1] ELSE Min(Head(s), MinOf(Tail(s)))

GridScene(h) ==
    [available |-> TRUE,
     nodes |-> [i \in 1..Len(h) |->
                  PlainNode(i, <<"|", "r", IndexChars[i]>>, TRUE, MinOf(h[i]))],
     meshes |-> <<>>,
     usd |-> [i \in 1..Len(h) |->
                [path |-> <<"/", "r", IndexChars[i]>>, root |-> TRUE,
                 broken |-> FALSE,
                 prims |-> <<PlainPrim(MinOf(h[i]))>> \o
                           [j \in 1..Len(h[i]) |-> PlainPrim(h[i][j])]]]]

GridScenes == {GridScene(h) : h \in Hierarchies}

\* Staged roots: what lies under a root, in the order Usd.PrimRange visits
\* it, and whether the root's stage and prim can be fetched at all.
RootKinds ==
    { [broken |-> FALSE, prims |-> <<PrimOnGrid, PrimOnGrid>>],
      [broken |-> FALSE, prims |-> <<PrimOnGrid, PrimOffGrid, PrimOffGrid>>],
      [broken |-> FALSE, prims |-> <<PrimOffGrid, PrimOffGrid>>],
      [broken |-> FALSE, prims |-> <<PrimFailing, PrimOffGrid>>],
      [broken |-> FALSE, prims |-> <<PrimOffGrid, PrimFailing>>],
      [broken |-> TRUE, prims |-> <<PrimOffGrid>>] }

StageScene(roots) ==
    [available |-> TRUE, nodes |-> <<>>, meshes |-> <<>>,
     usd |-> [i \in 1..Len(roots) |->
                [path |-> <<"/", "r", IndexChars[i]>>, root |-> TRUE,
                 broken |-> roots[i].broken, prims |-> roots[i].prims]]]

StageScenes ==
    {StageScene(roots) : roots \in UNION {[1..r -> RootKinds] : r \in 0..MaxRoots}}

\* A scene with a node that no longer resolves.
StaleScene ==
    [available |-> TRUE, nodes |-> NodeLib, meshes |-> <<>>, usd |-> UsdLib]

\* The calls of run: a scene and the checks selected for it.
CheckCases ==
    (NameScenes \X {<<"duplicated_names">>})
    \cup (MeshScenes \X {<<"ngons", "cross_border", "on_border">>})
    \cup (GridScenes \X {<<"on_grid">>})
    \cup (StageScenes \X {<<"on_grid">>})
    \cup (TileScenes \X {<<"cross_border">>})
    \cup {<<StaleScene, <<"layers", "on_grid">>>>}

CheckInit ==
    /\ \E case \in CheckCases : scene = case[1] /\ selected = case[2]
    /\ backend \in Backends
    /\ pc = "idle"
    /\ idx = 0
    /\ sub = 0
    /\ acc = NoResult
    /\ active = {}
    /\ results = <<>>
    /\ errors = <<>>
    /\ checksDone = 0
    /\ sinkLog = <<>>
    /\ invLog = <<>>
    /\ runs = <<>>
    /\ call = NoCall

\* run has returned and is called again, with the same backend and the same
\* selection, on the unchanged scene: what it returned is kept to compare.
RunAgain ==
    /\ pc = "returned"
    /\ Len(runs) < MaxRuns
    /\ runs' = Append(runs, [results |-> results, errors |-> errors])
    /\ pc' = "idle"
    /\ idx' = 0
    /\ sub' = 0
    /\ acc' = NoResult
    /\ active' = {}
    /\ results' = <<>>
    /\ errors' = <<>>
    /\ checksDone' = 0
    /\ sinkLog' = <<>>
    /\ invLog' = <<>>
    /\ UNCHANGED <<scene, backend, selected, call>>

CheckNext ==
    \/ Next
    \/ RunAgain

CheckSpec == CheckInit /\ [][CheckNext]_vars

(***************************************************************************)
(* The commands of mayaLint_commands, which take the nodes to look at and  *)
(* no Runner: command(nodes, SLMesh) returns the kind of its result and    *)
(* the result.  A command is called once in a behaviour, and call keeps    *)
(* its name, its argument and what it returned.                            *)
(***************************************************************************)
MaxDepth == 7
MaxTransforms == 3

\* HIERARCHY_DEPTH_MAX threshold (default: 5)
HIERARCHY_DEPTH_MAX == 5

\* The full DAG path of a transform nested depth levels deep, |g|g|...|g.
RECURSIVE NestedPath(_)
NestedPath(depth) ==
    IF depth = 0 THEN <<>> ELSE <<"|", "g">> \o NestedPath(depth - 1)

\* A transform at a nesting level, the i-th of the nodes handed over.
Transform(i, depth) ==
    [uuid |-> <<"u", IndexChars[i]>>, depth |-> depth, path |-> NestedPath(depth)]

TransformLists ==
    { [i \in 1..Len(d) |-> Transform(i, d[i])] :
        d \in UNION {[1..k -> 1..MaxDepth] : k \in 0..MaxTransforms} }

\* The number of times ch occurs in s.
CountOf(s, ch) == Cardinality({i \in 1..Len(s) : s[i] = ch})

RECURSIVE hierarchyDepthLoopFromMax(_, _)
hierarchyDepthLoopFromMax(nodes, tooDeep) ==
    IF nodes = <<>> THEN tooDeep
    ELSE hierarchyDepthLoopFromMax(Tail(nodes),
             IF CountOf(Head(nodes).path, "|") >= HIERARCHY_DEPTH_MAX
             THEN Append(tooDeep, Head(nodes).uuid) ELSE tooDeep)

\* For each transform: its full DAG path, the number of '|' in it, flagged
\* when that exceeds the maximum.
RECURSIVE hierarchyDepthLoop(_, _)
hierarchyDepthLoop(nodes, tooDeep) ==
    IF nodes = <<>> THEN tooDeep
    ELSE hierarchyDepthLoop(Tail(nodes),
             IF CountOf(Head(nodes).path, "|") > HIERARCHY_DEPTH_MAX
             THEN Append(tooDeep, Head(nodes).uuid) ELSE tooDeep)

hierarchyDepth(nodes) ==
    [result_type |-> "nodes", result_data |-> hierarchyDepthLoop(nodes, <<>>)]

MaxSize == 130

\* Python's n & m for n >= 0 (m may be -1: all bits set).
RECURSIVE BitAnd(_, _)
BitAnd(n, m) ==
    IF n = 0 \/ m = 0 THEN 0
    ELSE (n % 2) * (m % 2) + 2 * BitAnd(n \div 2, m \div 2)

\* The bit trick alone, as the ALGORITHM section words it.
isPowerOfTwoBitTrickOnly(n) == BitAnd(n, n - 1) = 0

\* _isPowerOfTwo(n): n > 0 and (n & (n - 1)) == 0
isPowerOfTwo(n) == n > 0 /\ BitAnd(n, n - 1) = 0

CommandInit ==
    /\ scene = NoScene
    /\ backend = "NATIVE"
    /\ selected = <<>>
    /\ pc = "idle"
    /\ idx = 0
    /\ sub = 0
    /\ acc = NoResult
    /\ active = {}
    /\ results = <<>>
    /\ errors = <<>>
    /\ checksDone = 0
    /\ sinkLog = <<>>
    /\ invLog = <<>>
    /\ runs = <<>>
    /\ call = NoCall

\* mc.hierarchyDepth(nodes, None)
HierarchyDepthCall ==
    /\ call = NoCall
    /\ \E nodes \in TransformLists :
          call' = [fn |-> "hierarchyDepth", arg |-> nodes,
                   out |-> hierarchyDepth(nodes)]
    /\ UNCHANGED <<scene, backend, selected, pc, idx, sub, acc, active,
                   results, errors, checksDone, sinkLog, invLog, runs>>

\* mc._isPowerOfTwo(n)
IsPowerOfTwoCall ==
    /\ call = NoCall
    /\ \E n \in 0..MaxSize :
          call' = [fn |-> "_isPowerOfTwo", arg |-> n, out |-> isPowerOfTwo(n)]
    /\ UNCHANGED <<scene, backend, selected, pc, idx, sub, acc, active,
                   results, errors, checksDone, sinkLog, invLog, runs>>

MaxFaulty == 2

\* The checks list of run_validation, in list order.
checks ==
    << "flippedNormals", "overlappingVertices", "polyCountLimit",
       "missingTextures", "defaultMaterials", "sceneUnits", "uvDistortion",
       "texelDensity", "textureResolution", "unusedNodes", "hiddenObjects",
       "namingConvention", "hierarchyDepth", "concaveFaces",
       "intermediateObjects" >>

\* What a test function does when called: it returns success, it returns a
\* reported failure, or an exception leaves it.
TestOutcomes == {"pass", "fail", "raise"}

\* The status run_validation records for an outcome.
StatusOf(o) ==
    CASE o = "pass" -> "PASS"
      [] o = "fail" -> "FAIL"
      [] o = "raise" -> "ERROR"

CountStatus(entries, status) ==
    Cardinality({k \in 1..Len(entries) : entries[k].status = status})

\* run_validation() up to the check loop.
RunValidationCall ==
    /\ call = NoCall
    /\ \E available \in BOOLEAN, scene_created \in BOOLEAN :
          call' = [fn |-> "run_validation",
                   available |-> available,
                   pc |-> IF ~available THEN "returned"
                          ELSE IF ~scene_created THEN "raised"
                          ELSE "loop",
                   i |-> 1,
                   outcomes |-> <<>>,
                   results |-> <<>>,
                   passed |-> 0, failed |-> 0, errors |-> 0,
                   ret |-> FALSE]
    /\ UNCHANGED <<scene, backend, selected, pc, idx, sub, acc, active,
                   results, errors, checksDone, sinkLog, invLog, runs>>

\* The loop body with no try/except round the call of the test function.
RunValidationCheckNoExcept ==
    /\ call.fn = "run_validation"
    /\ call.pc = "loop"
    /\ call.i <= Len(checks)
    /\ \E o \in TestOutcomes :
          /\ o # "pass" =>
                Cardinality({k \in 1..Len(call.outcomes) :
                                call.outcomes[k] # "pass"}) < MaxFaulty
          /\ call' =
                IF o = "raise"
                THEN [call EXCEPT !.outcomes = Append(@, o), !.pc = "raised"]
                ELSE [call EXCEPT
                         !.outcomes = Append(@, o),
                         !.results = Append(@, [name |-> checks[call.i],
                                                status |-> StatusOf(o)]),
                         !.i = @ + 1]
    /\ UNCHANGED <<scene, backend, selected, pc, idx, sub, acc, active,
                   results, errors, checksDone, sinkLog, invLog, runs>>

\* One pass of "for name, test_func in checks".
RunValidationCheck ==
    /\ call.fn = "run_validation"
    /\ call.pc = "loop"
    /\ call.i <= Len(checks)
    /\ \E o \in TestOutcomes :
          /\ o # "pass" =>
                Cardinality({k \in 1..Len(call.outcomes) :
                                call.outcomes[k] # "pass"}) < MaxFaulty
          /\ call' = [call EXCEPT
                         !.outcomes = Append(@, o),
                         !.results = Append(@, [name |-> checks[call.i],
                                                status |-> StatusOf(o)]),
                         !.i = @ + 1]
    /\ UNCHANGED <<scene, backend, selected, pc, idx, sub, acc, active,
                   results, errors, checksDone, sinkLog, invLog, runs>>

\* The summary after the loop, and the return value.
RunValidationSummary ==
    /\ call.fn = "run_validation"
    /\ call.pc = "loop"
    /\ call.i > Len(checks)
    /\ call' = [call EXCEPT
                   !.passed = CountStatus(call.results, "PASS"),
                   !.failed = CountStatus(call.results, "FAIL"),
                   !.errors = CountStatus(call.results, "ERROR"),
                   !.ret = CountStatus(call.results, "PASS") = Len(checks),
                   !.pc = "returned"]
    /\ UNCHANGED <<scene, backend, selected, pc, idx, sub, acc, active,
                   results, errors, checksDone, sinkLog, invLog, runs>>

MaxWidgets == 3

\* The checks the widgets of a report are built for.
WidgetChecks == {"ngons", "on_grid", "layers"}

\* all_check_widgets: the check name of each widget, in widget order.
WidgetLists ==
    UNION { [1..n -> WidgetChecks] : n \in 0..MaxWidgets }

\* result_object['error_object']: an entry for some of the checks, each
\* check's entry its own.
ErrorObjects ==
    { [c \in keys |-> <<"entry of", c>>] : keys \in SUBSET WidgetChecks }

\* The combo box indices: Overview, Normal, Verbose.
VerbosityLevels == 0..2

\* check.render_html(entry, verbosity_level, last_failed): the block is
\* known by the check it is called on and the arguments it is called with.
render_html(check, entry, verbosity_level, last_failed) ==
    [check |-> check, entry |-> entry, verbosity |-> verbosity_level,
     last_failed |-> last_failed]

\* The loop with last_failed assigned only when a block is rendered.
RECURSIVE RenderLoopSticky(_, _, _, _, _, _)
RenderLoopSticky(widgets, error_object, level, k, last_failed, html) ==
    IF k > Len(widgets) THEN html
    ELSE IF widgets[k] \in DOMAIN error_object
         THEN RenderLoopSticky(widgets, error_object, level, k + 1, TRUE,
                  Append(html, [pos |-> k,
                                block |-> render_html(widgets[k],
                                              error_object[widgets[k]],
                                              level, last_failed)]))
         ELSE RenderLoopSticky(widgets, error_object, level, k + 1,
                               last_failed, html)

\* The loop that renders every widget, with an entry or without.
RECURSIVE RenderLoopEvery(_, _, _, _, _, _)
RenderLoopEvery(widgets, error_object, level, k, last_failed, html) ==
    IF k > Len(widgets) THEN html
    ELSE RenderLoopEvery(widgets, error_object, level, k + 1,
             widgets[k] \in DOMAIN error_object,
             Append(html, [pos |-> k,
                           block |-> render_html(widgets[k],
                                         IF widgets[k] \in DOMAIN error_object
                                         THEN error_object[widgets[k]]
                                         ELSE None,
                                         level, last_failed)]))

\* for check_widget in all_check_widgets: html grows by one block for a
\* widget whose check name is in error_object; pos keeps the widget's place
\* in widget order beside the block.
RECURSIVE RenderLoop(_, _, _, _, _, _)
RenderLoop(widgets, error_object, level, k, last_failed, html) ==
    IF k > Len(widgets) THEN html
    ELSE RenderLoop(widgets, error_object, level, k + 1,
             widgets[k] \in DOMAIN error_object,
             IF widgets[k] \in DOMAIN error_object
             THEN Append(html, [pos |-> k,
                                block |-> render_html(widgets[k],
                                              error_object[widgets[k]],
                                              level, last_failed)])
             ELSE html)

\* ReportUI.render_report(result_object, all_check_widgets)
RenderReportCall ==
    /\ call = NoCall
    /\ \E widgets \in WidgetLists, error_object \in ErrorObjects,
          level \in VerbosityLevels :
          call' = [fn |-> "render_report",
                   widgets |-> widgets,
                   error_object |-> error_object,
                   verbosity_level |-> level,
                   html |-> RenderLoop(widgets, error_object, level, 1,
                                       FALSE, <<>>)]
    /\ UNCHANGED <<scene, backend, selected, pc, idx, sub, acc, active,
                   results, errors, checksDone, sinkLog, invLog, runs>>

MaxTotal == 1

ProgressKeys == {"nodes_total", "current_node", "total_checks", "current_check"}

\* The payloads delivered to update: any of the four keys, a counter never
\* above the total delivered with it.
Payloads ==
    { data \in UNION { [keys -> 0..MaxTotal] : keys \in SUBSET ProgressKeys } :
        /\ {"nodes_total", "current_node"} \subseteq DOMAIN data
              => data["current_node"] <= data["nodes_total"]
        /\ {"total_checks", "current_check"} \subseteq DOMAIN data
              => data["current_check"] <= data["total_checks"] }

\* QtWidgets.QProgressBar(): maximum 100 and no value yet.
QProgressBar == [maximum |-> 100, value |-> -1]

setMaximum(bar, maximum) == [bar EXCEPT !.maximum = maximum]

setValue(bar, value) == [bar EXCEPT !.value = value]

reset(bar) == [bar EXCEPT !.value = -1]

\* An update that takes each key of the payload by itself.
updateEachKey(ui, data) ==
    LET withMax(bar, key) ==
            IF key \in DOMAIN data THEN setMaximum(bar, data[key]) ELSE bar
        withValue(bar, key) ==
            IF key \in DOMAIN data THEN setValue(bar, data[key]) ELSE bar
    IN  [node_progress |->
             withValue(withMax(ui.node_progress, "nodes_total"),
                       "current_node"),
         checks_progress |->
             withValue(withMax(ui.checks_progress, "total_checks"),
                       "current_check")]

\* ProgressUI.update(data): the two bars after the call.
update(ui, data) ==
    [node_progress |->
         IF "nodes_total" \in DOMAIN data /\ "current_node" \in DOMAIN data
         THEN setValue(setMaximum(ui.node_progress, data["nodes_total"]),
                       data["current_node"])
         ELSE ui.node_progress,
     checks_progress |->
         IF "total_checks" \in DOMAIN data /\ "current_check" \in DOMAIN data
         THEN setValue(setMaximum(ui.checks_progress, data["total_checks"]),
                       data["current_check"])
         ELSE ui.checks_progress]

\* The pair of a payload for one bar, None when a key of it is missing.
PairOf(data, total, current) ==
    IF {total, current} \subseteq DOMAIN data
    THEN <<data[total], data[current]>>
    ELSE None

\* ProgressUI(): two fresh bars. node_pair and checks_pair remember the last
\* complete pair delivered for each bar.
ProgressUINew ==
    /\ call = NoCall
    /\ call' = [fn |-> "ProgressUI", op |-> "__init__", data |-> <<>>,
                ui |-> [node_progress |-> QProgressBar,
                        checks_progress |-> QProgressBar],
                node_pair |-> None, checks_pair |-> None]
    /\ UNCHANGED <<scene, backend, selected, pc, idx, sub, acc, active,
                   results, errors, checksDone, sinkLog, invLog, runs>>

\* ProgressUI.update(data)
ProgressUIUpdate ==
    /\ call.fn = "ProgressUI"
    /\ \E data \in Payloads :
          LET nodes == PairOf(data, "nodes_total", "current_node")
              done == PairOf(data, "total_checks", "current_check")
          IN  call' = [call EXCEPT
                          !.op = "update",
                          !.data = data,
                          !.ui = update(call.ui, data),
                          !.node_pair = IF nodes = None THEN @ ELSE nodes,
                          !.checks_pair = IF done = None THEN @ ELSE done]
    /\ UNCHANGED <<scene, backend, selected, pc, idx, sub, acc, active,
                   results, errors, checksDone, sinkLog, invLog, runs>>

\* ProgressUI.reset()
ProgressUIReset ==
    /\ call.fn = "ProgressUI"
    /\ call' = [call EXCEPT
                   !.op = "reset",
                   !.data = <<>>,
                   !.ui = [node_progress |-> reset(call.ui.node_progress),
                           checks_progress |-> reset(call.ui.checks_progress)],
                   !.node_pair = None, !.checks_pair = None]
    /\ UNCHANGED <<scene, backend, selected, pc, idx, sub, acc, active,
                   results, errors, checksDone, sinkLog, invLog, runs>>

\* The ids given on the command line: two checks of the release plan and
\* an id the plan does not hold.
PlannedIds == {"scene_units", "hierarchy_depth"}

CheckIds == PlannedIds \cup {"no_such_check"}

\* The release plan as a run loads it: for each planned id its check, whose
\* description may have been edited between two runs.
Descriptions == {"first wording", "edited wording"}

ScaffoldPlans ==
    { [id \in PlannedIds |-> [id |-> id, description |-> d[id]]] :
        d \in [PlannedIds -> Descriptions] }

\* os.path.join("tests", f"test_{check_id}.py")
TestPath(check_id) == <<"tests", "test_" \o check_id \o ".py">>

\* generate_test_file(check, phase): the text depends on the check's fields.
generate_test_file(check) == [tests_for |-> check.id, text |-> check.description]

\* What tests/ may hold before the generator runs: for any of the ids, a
\* test file somebody wrote.
TestDirs ==
    { [path \in {TestPath(id) : id \in ids} |->
          [tests_for |-> "anything", text |-> "written by hand"]] :
        ids \in SUBSET CheckIds }

\* find_check(release_plan, check_id): the check, if the plan has one.
find_check(release_plan, check_id) ==
    IF check_id \in DOMAIN release_plan
    THEN [found |-> TRUE, check |-> release_plan[check_id]]
    ELSE [found |-> FALSE]

\* The files with one more, or with one replaced.
WriteFile(files, path, text) ==
    [q \in DOMAIN files \cup {path} |-> IF q = path THEN text ELSE files[q]]

\* main() opening the test file for writing whether it exists or not.
mainAlwaysWrites(files, release_plan, check_id) ==
    LET check == find_check(release_plan, check_id)
    IN  IF ~check.found THEN files
        ELSE WriteFile(files, TestPath(check_id),
                       generate_test_file(check.check))

\* main(): the files under tests/ after the run for check_id.
main(files, release_plan, check_id) ==
    LET check == find_check(release_plan, check_id)
        test_path == TestPath(check_id)
    IN  IF ~check.found THEN files
        ELSE IF test_path \in DOMAIN files THEN files
        ELSE WriteFile(files, test_path, generate_test_file(check.check))

\* python scripts/generate_scaffold.py <check_id>: a first run on any tests/
\* directory, or a further run on the directory the last run left. before
\* keeps the files as they were when this run started.
GenerateScaffoldMain ==
    /\ call = NoCall \/ call.fn = "generate_scaffold"
    /\ \E files \in (IF call = NoCall THEN TestDirs ELSE {call.files}),
          release_plan \in ScaffoldPlans, check_id \in CheckIds :
          call' = [fn |-> "generate_scaffold",
                   check_id |-> check_id,
                   release_plan |-> release_plan,
                   before |-> files,
                   files |-> main(files, release_plan, check_id)]
    /\ UNCHANGED <<scene, backend, selected, pc, idx, sub, acc, active,
                   results, errors, checksDone, sinkLog, invLog, runs>>

MaxPlan == 3

\* The status values of a check in the release plan; "blocked" stands for
\* any value that is not one of the three the scripts name.
StatusValues == {"completed", "in_progress", "not_started", "blocked"}

\* The checks of the release plan, phase after phase: each with its status
\* and with what verify_check finds for it on disk.
VerifyPlans ==
    UNION { { [k \in 1..n |-> [id |-> <<"check", IndexChars[k]>>,
                                status |-> st[k], passes |-> ok[k]]] :
                st \in [1..n -> StatusValues], ok \in [1..n -> BOOLEAN] } :
            n \in 0..MaxPlan }

\* The four lists of verify_all.
NoBuckets ==
    [completed |-> <<>>, in_progress |-> <<>>, not_started |-> <<>>,
     issues |-> <<>>]

\* for check in phase['checks']: verified lists the ids handed to
\* verify_check; results[status] of a status that is no key raises KeyError
\* and verify_all ends there, before the summary.
RECURSIVE VerifyAllLoop(_, _, _, _)
VerifyAllLoop(plan, k, buckets, verified) ==
    IF k > Len(plan)
    THEN [raised |-> FALSE, results |-> buckets, verified |-> verified,
          summary |-> TRUE]
    ELSE LET check_id == plan[k].id
             status == plan[k].status
         IN  IF status = "not_started"
             THEN VerifyAllLoop(plan, k + 1,
                      [buckets EXCEPT !.not_started = Append(@, check_id)],
                      verified)
             ELSE IF plan[k].passes
             THEN IF status \in DOMAIN buckets
                  THEN VerifyAllLoop(plan, k + 1,
                           [buckets EXCEPT ![status] = Append(@, check_id)],
                           Append(verified, check_id))
                  ELSE [raised |-> TRUE, results |-> buckets,
                        verified |-> Append(verified, check_id),
                        summary |-> FALSE]
             ELSE VerifyAllLoop(plan, k + 1,
                      [buckets EXCEPT
                          !.issues = Append(@, <<check_id, "issues">>)],
                      Append(verified, check_id))

verify_all(plan) == VerifyAllLoop(plan, 1, NoBuckets, <<>>)

\* python scripts/verify_check.py --all
VerifyAllCall ==
    /\ call = NoCall
    /\ \E plan \in VerifyPlans :
          call' = [fn |-> "verify_all", plan |-> plan, out |-> verify_all(plan)]
    /\ UNCHANGED <<scene, backend, selected, pc, idx, sub, acc, active,
                   results, errors, checksDone, sinkLog, invLog, runs>>

CommandNext ==
    \/ GenerateScaffoldMain
    \/ VerifyAllCall
    \/ ProgressUINew
    \/ ProgressUIUpdate
    \/ ProgressUIReset
    \/ RenderReportCall
    \/ HierarchyDepthCall
    \/ IsPowerOfTwoCall
    \/ RunValidationCall
    \/ RunValidationCheck
    \/ RunValidationSummary

CommandSpec == CommandInit /\ [][CommandNext]_vars

(***************************************************************************)
(* Properties.                                                             *)
(***************************************************************************)
Range(s) == {s[i] : i \in 1..Len(s)}

\* The selected checks run dispatches for the backend, and those it skips.
Supported(c) == Entries(c, backend) # <<>>

\* Some entry point run calls for the check raises on the scene.
Raises(c) ==
    \E k \in 1..Len(Entries(c, backend)) :
        Call(c, Entries(c, backend)[k], scene).raised

\* What the check's callables return on the scene, merged across backends.
RECURSIVE OwnResultFrom(_, _, _)
OwnResultFrom(c, k, sofar) ==
    IF k > Len(Entries(c, backend)) THEN sofar
    ELSE OwnResultFrom(c, k + 1,
                       Merge(sofar, Call(c, Entries(c, backend)[k], scene).value))

OwnResult(c) == OwnResultFrom(c, 1, NoResult)

\* C1: when run returns, a check whose callable raised is in errors and not
\* in results, and every other selected check that supports the backend and
\* does not raise, before or after it, is in results with its own result;
\* the run is not aborted: it never fails once a callable has been invoked,
\* and between two invocations it can always go on.
C1_Isolation ==
    /\ pc = "returned" =>
          \A c \in Range(selected) :
              /\ (Supported(c) /\ Raises(c)) =>
                    (c \in DOMAIN errors /\ c \notin DOMAIN results)
              /\ (Supported(c) /\ ~Raises(c)) =>
                    (c \in DOMAIN results /\ results[c] = OwnResult(c))
    /\ pc = "failed" => invLog = <<>>
    /\ pc = "loop" => ENABLED (Skip \/ Invoke \/ Return)

\* A returned run in which a check raised between two checks that did not.
C1_Witness ==
    /\ pc = "returned"
    /\ \E i, j, k \in 1..Len(selected) :
          /\ i < j /\ j < k
          /\ selected[j] \in DOMAIN errors
          /\ selected[i] \in DOMAIN results
          /\ selected[k] \in DOMAIN results
          /\ results[selected[i]] # NodeList(<<>>)

\* The classes that define run and no usd_run.
NativeOnlyClasses ==
    {"layers", "uncentered_pivots", "namespaces", "ngons", "cross_border",
     "on_border", "unfrozen_transforms"}

\* C2: with backend = STAGED a check that implements only run has no entry
\* in results, none in errors, and its callable is never invoked.
C2_StagedSkipsNativeOnly ==
    backend = "STAGED" =>
        \A c \in NativeOnlyClasses :
            /\ c \notin DOMAIN results
            /\ c \notin DOMAIN errors
            /\ \A k \in 1..Len(invLog) : invLog[k][1] # c

\* A returned STAGED run that selected the n-gon check and a staged check.
C2_Witness ==
    /\ pc = "returned"
    /\ backend = "STAGED"
    /\ "ngons" \in Range(selected)
    /\ "on_grid" \in DOMAIN results
    /\ scene.meshes # <<>>

\* C3: when run returns, no name is a key of both results and errors, every
\* selected check that supports the backend is a key of one of them, and no
\* other check is a key of either.
C3_KeySets ==
    /\ DOMAIN results \cap DOMAIN errors = {}
    /\ pc = "returned" =>
          \A c \in CheckNames :
              (c \in Range(selected) /\ Supported(c))
                  <=> (c \in DOMAIN results \cup DOMAIN errors)

\* A returned run of three checks with two results and an error.
C3_Witness ==
    /\ pc = "returned"
    /\ Len(selected) = 3
    /\ Cardinality(DOMAIN results) = 2
    /\ Cardinality(DOMAIN errors) = 1

NoRepeat(s) == \A i, j \in 1..Len(s) : i # j => s[i] # s[j]

\* C4: with backend = BOTH, a check with both entry points whose passes both
\* return has one entry, under its own name, that holds every entity of the
\* native pass and every entity of the staged pass, none of them twice.
C4_BothMerge ==
    (pc = "returned" /\ backend = "BOTH") =>
        /\ DOMAIN results \subseteq CheckNames
        /\ \A c \in Range(selected) :
              (HasRun(c) /\ HasUsdRun(c) /\ ~Raises(c)) =>
                  /\ c \in DOMAIN results
                  /\ results[c].shape = "list"
                  /\ Range(Call(c, "run", scene).value.items)
                        \subseteq Range(results[c].items)
                  /\ Range(Call(c, "usd_run", scene).value.items)
                        \subseteq Range(results[c].items)
                  /\ NoRepeat(results[c].items)

\* A returned BOTH run where the native pass of on_grid flagged one entity
\* and the staged pass another.
C4_Witness ==
    /\ pc = "returned"
    /\ backend = "BOTH"
    /\ "on_grid" \in DOMAIN results
    /\ Call("on_grid", "run", scene).value.items # <<>>
    /\ Call("on_grid", "usd_run", scene).value.items # <<>>
    /\ Len(results["on_grid"].items) = 2

\* The selected checks that run skips for the backend.
Skipped == {i \in 1..Len(selected) : ~Supported(selected[i])}

PositionOf(c) == CHOOSE i \in 1..Len(selected) : selected[i] = c

\* C6: at most one callable is executing at any time, it is the one invoked
\* last, it belongs to the check being dispatched, every check before that
\* one in the selection has been run to its end or skipped, and none after
\* it has been invoked: the invocations follow the order of the selection.
C6_Sequential ==
    /\ Cardinality(active) <= 1
    /\ pc = "call" <=> active # {}
    /\ active # {} => active = {invLog[Len(invLog)]} /\ invLog[Len(invLog)][1] = Current
    /\ \A k \in 1..Len(invLog) : PositionOf(invLog[k][1]) <= idx
    /\ \A k, l \in 1..Len(invLog) :
          k < l => PositionOf(invLog[k][1]) <= PositionOf(invLog[l][1])
    /\ \A i \in 1..Len(selected) :
          (i < idx /\ Supported(selected[i])) =>
              selected[i] \in DOMAIN results \cup DOMAIN errors

\* The second callable of a check is executing after the first returned,
\* and an earlier check has completed.
C6_Witness ==
    /\ pc = "call"
    /\ Len(invLog) = 3
    /\ invLog[2][1] = invLog[3][1]
    /\ invLog[1][1] \in DOMAIN results

\* C7: when the scene cannot be enumerated, run fails, with no callable
\* invoked and nothing recorded in results or errors or told to the sink;
\* and run fails in no other case.
C7_EnumerationFailure ==
    /\ ~scene.available =>
          /\ pc \in {"idle", "failed"}
          /\ invLog = <<>> /\ active = {}
          /\ results = <<>> /\ errors = <<>> /\ sinkLog = <<>>
    /\ pc = "failed" => ~scene.available
    /\ (pc = "idle" /\ ~scene.available) => ENABLED Start

\* run has failed although checks were selected.
C7_Witness ==
    /\ pc = "failed"
    /\ Len(selected) = 3

EmptyScene(sc) == sc.nodes = <<>> /\ sc.meshes = <<>> /\ sc.usd = <<>>

ComponentKinds == {"VERTEX", "EDGE", "FACE", "UV"}

IsEmptyResult(c, r) ==
    /\ r \in {NodeList(<<>>), ComponentMap(EmptyDict)}
    /\ NodeType(c) \in ComponentKinds => r.shape = "map"
    /\ NodeType(c) = "NODE" => r.shape = "list"

\* C8: on a scene whose node, mesh and USD sequences are empty every
\* callable returns, without raising, an empty list (node-level check) or
\* an empty mapping (component check); so a run on it ends with every
\* dispatched check in results with an empty result, and errors empty.
C8_EmptyScene ==
    (scene.available /\ EmptyScene(scene)) =>
        /\ errors = <<>>
        /\ \A c \in DOMAIN results : IsEmptyResult(c, results[c])
        /\ pc = "returned" =>
              \A c \in Range(selected) : Supported(c) => c \in DOMAIN results

\* A returned run on the empty scene with a list result and a mapping result.
C8_Witness ==
    /\ pc = "returned"
    /\ scene.available /\ EmptyScene(scene)
    /\ \E c, d \in DOMAIN results :
          results[c].shape = "list" /\ results[d].shape = "map"

NonDecreasing(s) == \A i, j \in 1..Len(s) : i < j => s[i] <= s[j]

Ascending(s) == \A i, j \in 1..Len(s) : i < j => s[i] < s[j]

\* C9: the result of a check that declares the node kind is a list and never
\* a mapping; the result of a check that declares a component kind is a
\* mapping from entity id to a non-decreasing list of indices.
C9_ResultShapes ==
    \A c \in DOMAIN results :
        /\ NodeType(c) = "NODE" => results[c].shape = "list"
        /\ NodeType(c) \in ComponentKinds =>
              /\ results[c].shape = "map"
              /\ \A id \in DOMAIN results[c].map :
                    NonDecreasing(results[c].map[id])

\* C10: in the result of a component check the index list of every entity is
\* ascending and holds no index twice, whatever sequence of mesh entries the
\* enumerator yields.
C10_IndicesAscending ==
    \A c \in DOMAIN results :
        NodeType(c) \in ComponentKinds =>
            \A id \in DOMAIN results[c].map :
                Ascending(results[c].map[id])

\* C11: every index in the result of a component check is an index of the
\* component kind the check declares, so that the entity id, the declared
\* kind and the index name the component the check found.
C11_IndexKind ==
    \A c \in DOMAIN results :
        NodeType(c) \in ComponentKinds =>
            \A id \in DOMAIN results[c].map :
                \A k \in 1..Len(results[c].map[id]) :
                    IndexKind(c) = NodeType(c)

\* The short name the duplicate-name check gives the i-th entity.
NativeShort(i) == RSplitLast(scene.nodes[i].name, "|")

StagedShort(i) == RSplitLast(scene.usd[i].path, "/")

\* The entities in the result list of the duplicate-name check.
FlaggedNames == Range(results["duplicated_names"].items)

\* C12, as stated: two entities named geo_cube1 and geo_cube2 both appear
\* in the result list of the duplicate-name check.
C12_SuffixIgnored ==
    (pc = "returned" /\ "duplicated_names" \in DOMAIN results
        /\ backend = "NATIVE") =>
        \A i, j \in 1..Len(scene.nodes) :
            (NativeShort(i) = GeoCube1 /\ NativeShort(j) = GeoCube2) =>
                /\ scene.nodes[i].uuid \in FlaggedNames
                /\ scene.nodes[j].uuid \in FlaggedNames

\* C12, amended: when the duplicate-name check returns, an entity is in its
\* result list if and only if another enumerated entity has the same short
\* name, the text after the last '|' of its name (the last '/' of its staged
\* path) compared as it is: an entity whose short name no other shares is
\* never in it.
C12_SharedShortName ==
    (pc = "returned" /\ "duplicated_names" \in DOMAIN results) =>
        /\ backend \in {"NATIVE", "BOTH"} =>
              \A i \in 1..Len(scene.nodes) :
                  scene.nodes[i].uuid \in FlaggedNames
                      <=> \E j \in 1..Len(scene.nodes) :
                              j # i /\ NativeShort(j) = NativeShort(i)
        /\ backend \in {"STAGED", "BOTH"} =>
              \A i \in 1..Len(scene.usd) :
                  scene.usd[i].path \in FlaggedNames
                      <=> \E j \in 1..Len(scene.usd) :
                              j # i /\ StagedShort(j) = StagedShort(i)

\* A returned native run on |geo_cube1, |geo_cube2 and |grp|geo_cube1 in
\* some order: two of the three are in the result list.
C12_Witness ==
    /\ pc = "returned"
    /\ backend = "NATIVE"
    /\ "duplicated_names" \in DOMAIN results
    /\ Len(scene.nodes) = 3
    /\ \E i, j \in 1..3 : NativeShort(i) = GeoCube1 /\ NativeShort(j) = GeoCube2
    /\ Cardinality(FlaggedNames) = 2

\* The positions, in the enumeration ids, of the entities that flagged holds.
PositionsOf(ids, flagged) == {i \in 1..Len(ids) : ids[i] \in Range(flagged)}

\* C15: on a native and a staged scene with the same entities (the same
\* path segments, joined by '|' and by '/'), run and usd_run of the
\* duplicate-name check flag the entities at the same positions.
C15_DuplicatedNamesBackends ==
    (pc = "returned" /\ scene \in NameScenes
        /\ "duplicated_names" \in DOMAIN results) =>
        /\ backend = "NATIVE" =>
              PositionsOf(GetMayaNodes(scene), results["duplicated_names"].items)
                  = PositionsOf(GetUsdNodes(scene),
                        DuplicatedNamesCheck_usd_run(scene).value.items)
        /\ backend = "STAGED" =>
              PositionsOf(GetUsdNodes(scene), results["duplicated_names"].items)
                  = PositionsOf(GetMayaNodes(scene),
                        DuplicatedNamesCheck_run(scene).value.items)

\* A returned staged run that flagged /geo_cube1 and /grp/geo_cube1 and left
\* a third entity alone.
C15_Witness ==
    /\ pc = "returned"
    /\ backend = "STAGED"
    /\ scene \in NameScenes
    /\ "duplicated_names" \in DOMAIN results
    /\ Len(scene.usd) = 3
    /\ Cardinality(FlaggedNames) = 2

\* Face f (counted from 1) of the m-th mesh entry is in the mapping under
\* the UUID of its node with its index (counted from 0).
FaceIn(map, m, f) ==
    /\ scene.meshes[m].uuid \in DOMAIN map
    /\ (f - 1) \in Range(map[scene.meshes[m].uuid])

\* Index k under id in a mapping is the index of a face of a mesh entry
\* with that UUID.
IsFaceOf(id, k) ==
    \E m \in 1..Len(scene.meshes) :
        scene.meshes[m].uuid = id /\ (k + 1) \in 1..Len(scene.meshes[m].faces)

\* C13: when the n-gon check returns, a face is in its result, under the
\* UUID of its node and with its face index, if and only if it has more
\* than 4 edges; nothing else is in the result.
C13_NgonFaces ==
    (pc = "returned" /\ "ngons" \in DOMAIN results) =>
        /\ \A m \in 1..Len(scene.meshes) :
              \A f \in 1..Len(scene.meshes[m].faces) :
                  FaceIn(results["ngons"].map, m, f)
                      <=> scene.meshes[m].faces[f].edges > 4
        /\ \A id \in DOMAIN results["ngons"].map :
              \A k \in Range(results["ngons"].map[id]) : IsFaceOf(id, k)

\* A returned run on a quad, a pentagon and a triangle: the pentagon alone
\* is in the result.
C13_Witness ==
    /\ pc = "returned"
    /\ "ngons" \in DOMAIN results
    /\ Len(scene.meshes) = 1
    /\ scene.meshes[1].faces = <<Quad, Pentagon, Triangle>>
    /\ results["ngons"].map[<<"m", "1">>] = <<1>>

\* The number of faces of the mesh entries whose UV query fails.
RECURSIVE FailingFaces(_)
FailingFaces(meshes) ==
    IF meshes = <<>> THEN 0
    ELSE Cardinality({f \in 1..Len(Head(meshes).faces) :
                         Head(meshes).faces[f].uv_error})
         + FailingFaces(Tail(meshes))

\* C16: the cross-border check returns, and is never in errors, whatever
\* faces fail their UV query; a failing face is not in the result; every
\* other face of every mesh is in the result exactly when its UVs lie in
\* more than one tile; and each failure gives one warning, naming the index
\* of a failing face.
C16_UVFailureWarned ==
    (pc = "returned" /\ "cross_border" \in Range(selected)
        /\ backend \in {"NATIVE", "BOTH"}) =>
        /\ "cross_border" \in DOMAIN results
        /\ "cross_border" \notin DOMAIN errors
        /\ \A m \in 1..Len(scene.meshes) :
              \A f \in 1..Len(scene.meshes[m].faces) :
                  LET face == scene.meshes[m].faces[f]
                  IN  FaceIn(results["cross_border"].map, m, f)
                          <=> (~face.uv_error /\ FaceCrossesBorder(face))
        /\ Len(CrossBorderCheck_warnings(scene)) = FailingFaces(scene.meshes)
        /\ \A k \in Range(CrossBorderCheck_warnings(scene)) :
              \E m \in 1..Len(scene.meshes) :
                  /\ (k + 1) \in 1..Len(scene.meshes[m].faces)
                  /\ scene.meshes[m].faces[k + 1].uv_error

\* A returned run where a face of the first mesh failed its UV query, a
\* later face of that mesh was flagged, and so was a face of the next mesh.
C16_Witness ==
    /\ pc = "returned"
    /\ "cross_border" \in DOMAIN results
    /\ Len(scene.meshes) = 2
    /\ scene.meshes[1].faces = <<Quad, Hexagon, Pentagon>>
    /\ results["cross_border"].map =
          [id \in {<<"m", "1">>, <<"m", "2">>} |->
              IF id = <<"m", "1">> THEN <<2>> ELSE <<0>>]
    /\ CrossBorderCheck_warnings(scene) = <<1>>

\* C14: on a native and a staged scene with the same roots, the same
\* hierarchy and the same world bounds, run and usd_run of the on-grid check
\* flag the roots at the same positions.
C14_OnGridBackends ==
    (pc = "returned" /\ scene \in GridScenes /\ "on_grid" \in DOMAIN results) =>
        /\ backend = "NATIVE" =>
              PositionsOf(GetMayaRootNodes(scene), results["on_grid"].items)
                  = PositionsOf(GetUsdRootNodes(scene),
                        OnGridCheck_usd_run(scene).value.items)
        /\ backend = "STAGED" =>
              PositionsOf(GetUsdRootNodes(scene), results["on_grid"].items)
                  = PositionsOf(GetMayaRootNodes(scene),
                        OnGridCheck_run(scene).value.items)

NamesOf(registry) == [i \in 1..Len(registry) |-> NameOfClass(registry[i])]

RegisteredNames == NamesOf(all_checks)

NoClassTwice == NoRepeat(all_checks) /\ NoRepeat(all_checks_top)

NoNameTwice == NoRepeat(RegisteredNames) /\ NoRepeat(NamesOf(all_checks_top))

\* C18: in neither registry list is a class listed twice or a check name
\* used by two entries; so a key of results or errors names at most one
\* entry of a registry.
C18_RegistryUnique ==
    /\ NoClassTwice
    /\ NoNameTwice
    /\ \A c \in DOMAIN results \cup DOMAIN errors :
          Cardinality({i \in 1..Len(all_checks) : RegisteredNames[i] = c}) <= 1

\* A returned run whose three checks are registered ones: each key of
\* results is the name of an entry of all_checks.
C18_Witness ==
    /\ pc = "returned"
    /\ Cardinality(DOMAIN results) = 3
    /\ DOMAIN results \subseteq Range(RegisteredNames)
    /\ "ngons" \in DOMAIN results

Categories == {"Naming", "Topology", "UVs", "General"}

EntityKinds == {"NODE", "VERTEX", "EDGE", "FACE", "UV"}

\* C19: every check class declares a name (the key it is selected by), a
\* label, a category among Naming, Topology, UVs and General, and an entity
\* kind among node, vertex, edge, face and UV.
C19_DeclaredMetadata ==
    \A c \in Range(selected) :
        /\ c \in CheckNames
        /\ Label(c) # "undeclared"
        /\ Category(c) \in Categories
        /\ NodeType(c) \in EntityKinds

\* C20: hierarchyDepth flags a transform if and only if it is nested more
\* than 5 levels deep, its depth being the number of '|' in its full DAG
\* path: at depth 5 or less it is never flagged, at depth 6 or more always.
C20_HierarchyDepth ==
    call.fn = "hierarchyDepth" =>
        /\ call.out.result_type = "nodes"
        /\ \A i \in 1..Len(call.arg) :
              /\ CountOf(call.arg[i].path, "|") = call.arg[i].depth
              /\ call.arg[i].uuid \in Range(call.out.result_data)
                    <=> call.arg[i].depth > 5
              /\ call.arg[i].depth <= 5 =>
                    call.arg[i].uuid \notin Range(call.out.result_data)
              /\ call.arg[i].depth >= 6 =>
                    call.arg[i].uuid \in Range(call.out.result_data)
        /\ Range(call.out.result_data)
              \subseteq {call.arg[i].uuid : i \in 1..Len(call.arg)}

\* hierarchyDepth was called on transforms at depths 5, 6 and 1 and flagged
\* the second alone.
C20_Witness ==
    /\ call.fn = "hierarchyDepth"
    /\ Len(call.arg) = 3
    /\ call.arg[1].depth = 5 /\ call.arg[2].depth = 6 /\ call.arg[3].depth = 1
    /\ call.out.result_data = <<call.arg[2].uuid>>

\* 1, 2, 4, 8, ... up to the largest size tried.
RECURSIVE PowersFrom(_)
PowersFrom(p) == IF p > MaxSize + 1 THEN {} ELSE {p} \cup PowersFrom(2 * p)

PowersOfTwo == PowersFrom(1)

\* The number of bits set in n.
RECURSIVE BitsSet(_)
BitsSet(n) == IF n = 0 THEN 0 ELSE (n % 2) + BitsSet(n \div 2)

C22_RegistryComplete ==
    \A c \in Range(selected) :
        c \in CheckNames => c \in Range(RegisteredNames)

\* C23: run_validation records exactly one result entry per listed check,
\* in list order, whatever each check did (pass, reported failure, raised
\* exception): the entry of a check carries its name and the status of its
\* outcome, the loop goes on to the next check after every outcome, and at
\* the return the PASS, FAIL and ERROR counts sum to the number of checks.
C23_OneEntryPerCheck ==
    call.fn = "run_validation" =>
        /\ Len(call.results) = Len(call.outcomes)
        /\ \A k \in 1..Len(call.results) :
              /\ call.results[k].name = checks[k]
              /\ call.results[k].status = StatusOf(call.outcomes[k])
        /\ call.pc = "loop" => call.i = Len(call.outcomes) + 1
        /\ call.pc = "raised" => call.outcomes = <<>>
        /\ (call.pc = "returned" /\ call.available) =>
              /\ Len(call.results) = Len(checks)
              /\ call.passed + call.failed + call.errors = Len(checks)
              /\ call.ret <=> call.passed = Len(checks)

\* A returned run whose first check raised, whose second reported a
\* failure, and whose later checks all ran and passed.
C23_Witness ==
    /\ call.fn = "run_validation"
    /\ call.pc = "returned"
    /\ call.available
    /\ call.results[1].status = "ERROR"
    /\ call.results[2].status = "FAIL"
    /\ call.results[Len(checks)].status = "PASS"
    /\ call.errors = 1 /\ call.failed = 1 /\ call.passed = Len(checks) - 2

\* The places of the widgets whose check name is a key of the mapping.
KeyedPlaces(widgets, error_object) ==
    {k \in 1..Len(widgets) : widgets[k] \in DOMAIN error_object}

\* The j-th smallest element of a set of places.
NthPlace(places, j) ==
    CHOOSE k \in places : Cardinality({m \in places : m < k}) = j - 1

\* C24: render_report produces one block for each widget whose check name
\* is a key of the per-check mapping, built from that check's own entry, the
\* blocks following each other in widget order; a widget whose check name
\* is not a key has no block.
C24_OneBlockPerKeyedWidget ==
    call.fn = "render_report" =>
        LET places == KeyedPlaces(call.widgets, call.error_object)
        IN  /\ Len(call.html) = Cardinality(places)
            /\ \A j \in 1..Len(call.html) :
                  LET k == NthPlace(places, j)
                  IN  /\ call.html[j].pos = k
                      /\ call.html[j].block.check = call.widgets[k]
                      /\ call.html[j].block.entry
                            = call.error_object[call.widgets[k]]
                      /\ call.html[j].block.verbosity = call.verbosity_level

\* Three widgets, the middle one without an entry: two blocks, of the first
\* and of the third widget.
C24_Witness ==
    /\ call.fn = "render_report"
    /\ Len(call.widgets) = 3
    /\ call.widgets[1] # call.widgets[3]
    /\ KeyedPlaces(call.widgets, call.error_object) = {1, 3}
    /\ Len(call.html) = 2

\* C25: the last_failed flag a check is rendered with is true if and only
\* if the widget just before it in widget order has its check name in the
\* mapping: false for the first widget, whatever the widgets further back.
C25_LastFailed ==
    call.fn = "render_report" =>
        \A j \in 1..Len(call.html) :
            LET k == call.html[j].pos
            IN  call.html[j].block.last_failed
                    <=> /\ k > 1
                        /\ call.widgets[k - 1] \in DOMAIN call.error_object

\* Three widgets, the first and the third with an entry, the second
\* without: the third is rendered with last_failed false.
C25_Witness ==
    /\ call.fn = "render_report"
    /\ Len(call.widgets) = 3
    /\ call.widgets[1] \in DOMAIN call.error_object
    /\ call.widgets[2] \notin DOMAIN call.error_object
    /\ Len(call.html) = 2
    /\ call.html[2].pos = 3
    /\ ~call.html[2].block.last_failed

\* The bar shows the pair: its maximum is the total, its value the counter.
Shows(bar, pair) ==
    pair # None => bar.maximum = pair[1] /\ bar.value = pair[2]

\* Each bar shows the last complete pair delivered for it.
ShowsLastPair ==
    call.fn = "ProgressUI" =>
        /\ Shows(call.ui.node_progress, call.node_pair)
        /\ Shows(call.ui.checks_progress, call.checks_pair)

\* An update changes a bar only when the payload has both keys of its pair.
ChangesOnCompletePair ==
    (call.fn = "ProgressUI" /\ call'.fn = "ProgressUI" /\ call'.op = "update")
        => /\ call'.ui.node_progress # call.ui.node_progress
                 => {"nodes_total", "current_node"} \subseteq DOMAIN call'.data
           /\ call'.ui.checks_progress # call.ui.checks_progress
                 => {"total_checks", "current_check"}
                        \subseteq DOMAIN call'.data

\* C26: ProgressUI.update changes the node bar only when the payload has
\* both nodes_total and current_node, and the checks bar only when it has
\* both total_checks and current_check; a payload missing a key of a pair
\* leaves that bar's maximum and value as they were, and after any sequence
\* of updates each bar shows the last complete pair delivered for it.
C26_ProgressPairs == [][ChangesOnCompletePair]_vars /\ []ShowsLastPair

\* After a complete node pair (1 of 1), an update with nodes_total alone
\* and a complete checks pair: the node bar still shows 1 of 1.
C26_Witness ==
    /\ call.fn = "ProgressUI"
    /\ call.op = "update"
    /\ DOMAIN call.data = {"nodes_total", "total_checks", "current_check"}
    /\ call.data["nodes_total"] = 0
    /\ call.node_pair = <<1, 1>>
    /\ call.ui.node_progress = [maximum |-> 1, value |-> 1]
    /\ call.ui.checks_progress = [maximum |-> 1, value |-> 0]

\* A prim of the root lies off the grid, and no prim visited before it, nor
\* the fetching of the root, raises.
OffGridReached(n) ==
    /\ ~n.broken
    /\ \E j \in 1..Len(n.prims) :
          /\ ~n.prims[j].fails
          /\ Abs(n.prims[j].min_y) > TOLERENCE
          /\ \A m \in 1..(j - 1) : ~n.prims[m].fails

\* C27: usd_run of the on-grid check returns each root at most once, in
\* root enumeration order, however many prims under it lie off the grid; a
\* root whose processing raises is left out, the check itself does not fail,
\* and every root, later ones included, is in the result exactly when an
\* off-grid prim of its own is reached.
C27_OnGridUsdRoots ==
    (pc = "returned" /\ "on_grid" \in Range(selected)
        /\ (backend = "STAGED" \/ (backend = "BOTH" /\ scene.nodes = <<>>))) =>
        /\ "on_grid" \in DOMAIN results
        /\ "on_grid" \notin DOMAIN errors
        /\ LET items == results["on_grid"].items
               roots == GetUsdRootNodes(scene)
           IN  /\ NoRepeat(items)
               /\ \A a, b \in 1..Len(items) :
                     a < b => \E i, j \in 1..Len(roots) :
                                 i < j /\ roots[i] = items[a] /\ roots[j] = items[b]
               /\ \A i \in 1..Len(roots) :
                     roots[i] \in Range(items)
                         <=> OffGridReached(UsdNodeOf(scene, roots[i]))

\* A returned staged run on two roots: the first raises at its first prim,
\* the second has two prims off the grid and is returned once.
C27_Witness ==
    /\ pc = "returned"
    /\ backend = "STAGED"
    /\ scene \in StageScenes
    /\ Len(scene.usd) = 2
    /\ scene.usd[1].prims = <<PrimFailing, PrimOffGrid>>
    /\ scene.usd[2].prims = <<PrimOffGrid, PrimOffGrid>>
    /\ "on_grid" \in DOMAIN results
    /\ results["on_grid"].items = <<scene.usd[2].path>>

\* The unit tile a coordinate lies in: the integer k with k <= x < k + 1.
TileOf(x) == x \div Unit

\* The coordinate lies strictly inside its tile, not on a border.
StrictlyInside(x) == x % Unit # 0

\* Every UV of the face lies strictly inside a tile, along U and along V.
InsideTiles(face) ==
    \A i \in 1..Len(face.uvs) :
        StrictlyInside(face.uvs[i][1]) /\ StrictlyInside(face.uvs[i][2])

\* The UVs of the face lie in more than one tile along U or along V.
SpansTiles(face) ==
    \E i, j \in 1..Len(face.uvs) :
        \/ TileOf(face.uvs[i][1]) # TileOf(face.uvs[j][1])
        \/ TileOf(face.uvs[i][2]) # TileOf(face.uvs[j][2])

\* C28: a face whose UVs all lie strictly inside unit tiles is flagged by the
\* cross-border check if and only if they lie in more than one tile along U
\* or along V, negative tiles included: never when all lie in one tile,
\* always when two lie in different tiles.
C28_CrossBorderTiles ==
    (pc = "returned" /\ "cross_border" \in DOMAIN results) =>
        \A m \in 1..Len(scene.meshes) :
            \A f \in 1..Len(scene.meshes[m].faces) :
                LET face == scene.meshes[m].faces[f]
                IN  (~face.uv_error /\ InsideTiles(face)) =>
                        (FaceIn(results["cross_border"].map, m, f)
                            <=> SpansTiles(face))

\* A returned run on a face with one UV just below -1 and one just above
\* it, both strictly inside their tiles (-2 and -1): the face is flagged.
C28_Witness ==
    /\ pc = "returned"
    /\ "cross_border" \in DOMAIN results
    /\ scene \in TileScenes
    /\ scene.meshes[1].faces[1].uvs
          = <<<<-Unit - 1, Half>>, <<-Unit + 1, Half>>>>
    /\ results["cross_border"].map[<<"m", "1">>] = <<0>>

\* C29: the scaffold generator writes tests/test_<check_id>.py only when no
\* file is at that path: every file that was there when a run started is
\* there afterwards with the text it had, and a run adds no file but the
\* test file of its own check id, and that only for a check of the plan.
C29_NeverOverwrites ==
    call.fn = "generate_scaffold" =>
        /\ \A path \in DOMAIN call.before :
              path \in DOMAIN call.files /\ call.files[path] = call.before[path]
        /\ DOMAIN call.files \ DOMAIN call.before
              \subseteq {TestPath(call.check_id)}
        /\ call.check_id \notin PlannedIds => call.files = call.before
        /\ (call.check_id \in PlannedIds
                /\ TestPath(call.check_id) \notin DOMAIN call.before) =>
              call.files[TestPath(call.check_id)]
                  = generate_test_file(call.release_plan[call.check_id])

\* A second run for scene_units, after the plan's description was edited:
\* the test file still has the text the first run generated.
C29_Witness ==
    /\ call.fn = "generate_scaffold"
    /\ call.check_id = "scene_units"
    /\ call.release_plan["scene_units"].description = "edited wording"
    /\ TestPath("scene_units") \in DOMAIN call.files
    /\ call.files[TestPath("scene_units")]
          = [tests_for |-> "scene_units", text |-> "first wording"]

\* The buckets of verify_all that hold the check id.
BucketsOf(buckets, check_id) ==
    {b \in DOMAIN buckets :
        \E k \in 1..Len(buckets[b]) :
            IF b = "issues" THEN buckets[b][k][1] = check_id
            ELSE buckets[b][k] = check_id}

\* C30: verify_all places every check of the release plan, whatever its
\* status value, in exactly one of the four buckets and then prints the
\* summary; a not_started check is never verified, and a check whose
\* verification reports issues is in neither completed nor in_progress.
C30_EveryCheckInOneBucket ==
    call.fn = "verify_all" =>
        /\ ~call.out.raised
        /\ call.out.summary
        /\ \A k \in 1..Len(call.plan) :
              LET check == call.plan[k]
                  held == BucketsOf(call.out.results, check.id)
              IN  /\ Cardinality(held) = 1
                  /\ check.status = "not_started" =>
                        check.id \notin Range(call.out.verified)
                  /\ (check.status # "not_started" /\ ~check.passes) =>
                        held = {"issues"}

====
